---- MODULE Spec2Model ----
(***************************************************************************)
(* Blink detector of the VisionCare dashboard.                             *)
(*                                                                         *)
(* Two revisions of the per-frame detector live in the repository:         *)
(*   "hyst"   - src/unnamed/part_000 (Dashboard with rolling BPM window):  *)
(*              closes at avgEAR < 0.30, re-opens at avgEAR >= 0.25,       *)
(*              camera start delayed by 500 ms, 5-second prune timer.      *)
(*   "single" - src/VisionCare/src/pages/Dashboard.tsx and App.tsx:        *)
(*              closes at avgEAR < 0.21, re-opens at avgEAR >= 0.21,       *)
(*              camera started at once, no rolling window.                 *)
(*                                                                         *)
(* EAR values are in thousandths (0.30 is 300).  Time is in milliseconds.  *)
(* The average blink rate is the exact fraction num/den (blinks/minute).   *)
(***************************************************************************)
EXTENDS Integers, Sequences, FiniteSets

VARIABLES
    variant,         \* which revision of the detector is mounted
    clock,           \* Date.now()
    camera,          \* "off" until initCamera has called camera.start()
    startTimeRef,    \* useRef(Date.now()) at mount
    blinkStateRef,   \* the "currently blinking" latch
    isBlinking,      \* React state mirroring the latch
    eyesDetected,    \* React state: face present in the last frame
    blinkCount,      \* React state: cumulative blink count
    avgBlinkRate,    \* React state: lifetime rate, [num, den]
    recentBlinksRef, \* timestamps of the blinks of the trailing window
    currentBPM,      \* React state: size of the window at its last update
    nextBpmTick,     \* earliest time of the next bpmUpdateInterval callback
    lastEvent,       \* history: the event handled last and what it did
    run,             \* history: current run of frames below the closing threshold
    dipped,          \* history: some frame was not at or above the closing threshold
    closings,        \* history: number of false->true changes of the latch
    landmarks,       \* the landmark set of the frame handled last, <<>> if none
    blinkLog,        \* history: timestamps of all blinks pushed to the window
    route,           \* the location the router shows
    isAuthenticated, \* localStorage has the item 'isAuthenticated'
    opencvLoaded,    \* React state: checkOpenCV has found window.cv
    mediaPipeReady,  \* window.FaceMesh and window.Camera are defined
    effects,         \* the runs of the camera effect, oldest first
    mounts,          \* history: number of times the Dashboard has been mounted
    leftEyeRedness,  \* React state: redness of the left eye, in percent
    rightEyeRedness, \* React state: redness of the right eye, in percent
    eyeHealthStatus, \* the status getEyeHealthStatus gave the last render
    blinkHealthStatus, \* the status getBlinkHealthStatus gave the last render
    sampledFrames,   \* history: parity of the frames that drew Math.random() < 0.2
    rednessCalls,    \* history: what the detectEyeRedness calls of the last
                     \* frame that made them returned and left behind
    modelLoad,       \* where loadModels stands
    modelsLoaded,    \* React state: both face-api models are loaded
    emotion,         \* React state: the emotion line of the dashboard
    emotionHistory,  \* React state: the emotion names kept for the insight
    emotionInterval, \* the 300 ms detection interval is set
    emotionLog,      \* history: the emotion names of all completed detections
    signupForm,      \* history: the fields of the last signup submission
    alert,           \* history: the alert the last signup submission raised
    lastAuth         \* history: the last action that changed the flag

vars == <<variant, clock, camera, startTimeRef, blinkStateRef, isBlinking,
          eyesDetected, blinkCount, avgBlinkRate, recentBlinksRef, currentBPM,
          nextBpmTick, lastEvent, run, dipped, closings, landmarks,
          blinkLog, route, isAuthenticated, opencvLoaded, mediaPipeReady,
          effects, mounts, leftEyeRedness, rightEyeRedness, eyeHealthStatus,
          blinkHealthStatus, sampledFrames, rednessCalls, modelLoad,
          modelsLoaded, emotion, emotionHistory, emotionInterval, emotionLog,
          signupForm, alert, lastAuth>>

\* what the Dashboard shows beside the blink figures
viewVars == <<leftEyeRedness, rightEyeRedness, eyeHealthStatus, blinkHealthStatus,
              sampledFrames, rednessCalls>>

emotionVars == <<modelLoad, modelsLoaded, emotion, emotionHistory, emotionInterval,
                 emotionLog>>

authVars == <<signupForm, alert, lastAuth>>

lifeVars == <<route, isAuthenticated, opencvLoaded, mediaPipeReady, effects, mounts>>

----------------------------------------------------------------------------
(* Bounds of the exploration *)

MaxBlinks == 3

MaxRun == 3

\* Largest distance between two landmarks, in grid units.
MaxDist == 200

\* Largest factor by which a landmark set is scaled.
MaxScale == 3

\* Instants at which Date.now() is observed (ms since mount).
TimePoints == {0, 500, 15000, 30000, 45000, 75000, 105000}

Variants == {"hyst", "single"}

----------------------------------------------------------------------------
(* JavaScript numbers: NaN compares false with everything *)

NaN == -1

\* Infinity: a positive number divided by 0
Inf == 1000000

\* Per-eye results of calcEAR fed to the detector, in thousandths.
EARValues == {NaN, 200, 220, 300, Inf}

JsLt(a, b) == a # NaN /\ b # NaN /\ a < b

JsLe(a, b) == a # NaN /\ b # NaN /\ a <= b

JsGe(a, b) == a # NaN /\ b # NaN /\ a >= b

\* const avgEAR = (leftEAR + rightEAR) / 2.0
avgEAR(leftEAR, rightEAR) ==
    IF leftEAR = NaN \/ rightEAR = NaN THEN NaN
    ELSE IF leftEAR = Inf \/ rightEAR = Inf THEN Inf
    ELSE (leftEAR + rightEAR) \div 2

----------------------------------------------------------------------------
(* The Eye Aspect Ratio *)

\* Eye landmark indices, [p0..p5] at positions 1..6
LEFT_EYE == <<33, 160, 158, 133, 153, 144>>

RIGHT_EYE == <<362, 385, 387, 263, 373, 380>>

\* a landmark that belongs to neither eye contour
NOSE == 1

ISqrt(n) == CHOOSE r \in 0..MaxDist : r * r <= n /\ n < (r + 1) * (r + 1)

\* Math.hypot; exact on the landmark sets drawn below, whose distances are integers
Hypot(dx, dy) == ISqrt(dx * dx + dy * dy)

\* Variant of calcEAR with an epsilon added to the divisor.
calcEAR_Epsilon(lms, eyeIndices) ==
    LET p(i) == lms[i]
        dist(a, b) == Hypot(p(a).x - p(b).x, p(a).y - p(b).y)
        A == dist(eyeIndices[2], eyeIndices[6])
        B == dist(eyeIndices[3], eyeIndices[5])
        C == dist(eyeIndices[1], eyeIndices[4])
    IN  ((A + B) * 1000) \div (2 * C + 1)

\* Variant of calcEAR that pairs the lid points p1-p4 and p2-p5.
calcEAR_Crossed(lms, eyeIndices) ==
    LET p(i) == lms[i]
        dist(a, b) == Hypot(p(a).x - p(b).x, p(a).y - p(b).y)
        A == dist(eyeIndices[2], eyeIndices[5])
        B == dist(eyeIndices[3], eyeIndices[6])
        C == dist(eyeIndices[1], eyeIndices[4])
    IN  IF C = 0 THEN (IF A + B = 0 THEN NaN ELSE Inf)
        ELSE ((A + B) * 1000) \div (2 * C)

\* calcEAR, in thousandths: (A + B) / (2.0 * C); x / 0 is Infinity, 0 / 0 is NaN
calcEAR(lms, eyeIndices) ==
    LET p(i) == lms[i]
        dist(a, b) == Hypot(p(a).x - p(b).x, p(a).y - p(b).y)
        A == dist(eyeIndices[2], eyeIndices[6])
        B == dist(eyeIndices[3], eyeIndices[5])
        C == dist(eyeIndices[1], eyeIndices[4])
    IN  IF C = 0 THEN (IF A + B = 0 THEN NaN ELSE Inf)
        ELSE ((A + B) * 1000) \div (2 * C)

(* Landmark sets delivered by the face-landmark detector *)

Pt(x, y) == [x |-> x, y |-> y]

\* The six contour points of an eye whose outer corner is at (o, 10): width w,
\* lid openings a and b; a slanted eye has p1 offset by (3, 4) from p5.
EyePoints(o, e) ==
    << Pt(o, 10),
       IF e.slant THEN Pt(o + 5, 14) ELSE Pt(o + 2, 10 + e.a),
       Pt(o + 6, 10 + e.b),
       Pt(o + e.w, 10),
       Pt(o + 6, 10),
       Pt(o + 2, 10) >>

EyeShapes ==
    { [w |-> 20, a |-> 4, b |-> 4, slant |-> FALSE],   \* EAR 0.200
      [w |-> 25, a |-> 5, b |-> 6, slant |-> FALSE],   \* EAR 0.220
      [w |-> 20, a |-> 6, b |-> 6, slant |-> FALSE],   \* EAR 0.300
      [w |-> 20, a |-> 4, b |-> 5, slant |-> TRUE],    \* EAR 0.250
      [w |-> 0,  a |-> 4, b |-> 4, slant |-> FALSE],   \* corners coincide
      [w |-> 0,  a |-> 0, b |-> 0, slant |-> FALSE] }  \* corners coincide, lids shut

LandmarkIdx ==
    {NOSE} \cup {LEFT_EYE[k] : k \in 1..6} \cup {RIGHT_EYE[k] : k \in 1..6}

MakeLandmarks(le, re, nose) ==
    [i \in LandmarkIdx |->
        IF \E k \in 1..6 : LEFT_EYE[k] = i
        THEN EyePoints(10, le)[CHOOSE k \in 1..6 : LEFT_EYE[k] = i]
        ELSE IF \E k \in 1..6 : RIGHT_EYE[k] = i
        THEN EyePoints(50, re)[CHOOSE k \in 1..6 : RIGHT_EYE[k] = i]
        ELSE Pt(40, nose)]

FaceSets ==
    {MakeLandmarks(le, re, nose) : le \in EyeShapes, re \in EyeShapes, nose \in {30, 35}}

\* all coordinates multiplied by k
Scaled(lms, k) == [i \in DOMAIN lms |-> Pt(k * lms[i].x, k * lms[i].y)]

----------------------------------------------------------------------------
(* Parameters of the two revisions *)

CloseThreshold(v) == IF v = "hyst" THEN 300 ELSE 210

OpenThreshold(v) == IF v = "hyst" THEN 250 ELSE 210

\* setTimeout(initCamera, 500) in part_000; initCamera() at once elsewhere
InitDelay(v) == IF v = "hyst" THEN 500 ELSE 0

WINDOW_MS == 60000

BPM_INTERVAL == 5000

MS_PER_MINUTE == 60000

----------------------------------------------------------------------------
(* Pure parts of the handlers *)

ZeroRate == [num |-> 0, den |-> 1]

\* Variant of BlinkRate that divides by the elapsed milliseconds, not minutes.
BlinkRate_PerMs(newCount, elapsedMs) ==
    IF elapsedMs > 0
    THEN [num |-> newCount, den |-> elapsedMs]
    ELSE ZeroRate

\* Variant of BlinkRate without the guard on the divisor.
BlinkRate_NoGuard(newCount, elapsedMs) ==
    [num |-> newCount * MS_PER_MINUTE, den |-> elapsedMs]

\* setAvgBlinkRate(elapsedMinutes > 0 ? newCount / elapsedMinutes : 0) with
\* elapsedMinutes = elapsedMs / 60000: the rate newCount * 60000 / elapsedMs.
BlinkRate(newCount, elapsedMs) ==
    IF elapsedMs > 0
    THEN [num |-> newCount * MS_PER_MINUTE, den |-> elapsedMs]
    ELSE ZeroRate

\* Variant of PruneWindow whose filter result is thrown away.
PruneWindow_None(w, now) == w

\* Variant of PruneWindow with the window given in seconds where ms are meant.
PruneWindow_Seconds(w, now) == SelectSeq(w, LAMBDA t : t > now - 60)

\* recentBlinksRef.current.filter(t => t > oneMinuteAgo), oneMinuteAgo = now - 60000
PruneWindow(w, now) == SelectSeq(w, LAMBDA t : t > now - WINDOW_MS)

\* Variant of IsClosing that does not look at the latch.
IsClosing_NoLatch(v, ear, latch) == JsLt(ear, CloseThreshold(v))

\* Variant of IsClosing that closes at the threshold itself.
IsClosing_Le(v, ear, latch) == JsLe(ear, CloseThreshold(v)) /\ ~latch

\* avgEAR < closing threshold && !blinkStateRef.current
IsClosing(v, ear, latch) == JsLt(ear, CloseThreshold(v)) /\ ~latch

\* else if (avgEAR >= re-opening threshold)
IsOpening(v, ear) == JsGe(ear, OpenThreshold(v))

----------------------------------------------------------------------------
(* One run of the camera effect: the timer that will call initCamera, the
   camera it has created, whether its cleanup has run, and the mount of the
   Dashboard it belongs to *)

\* The run right after the effect body: part_000 sets a 500 ms timer, the
\* older Dashboard and App call initCamera at once, which either starts the
\* camera or, MediaPipe missing, sets the 100 ms retry timer.  cv is the
\* opencvLoaded its callbacks have closed over, guest tells a mount without
\* the isAuthenticated flag.
EffectRun(v, mp, m) ==
    [timer |-> IF v = "hyst" THEN "initial" ELSE IF mp THEN "none" ELSE "retry",
     cam |-> IF v # "hyst" /\ mp THEN "running" ELSE "none",
     cleaned |-> FALSE,
     mount |-> m,
     cv |-> FALSE,
     guest |-> FALSE]

\* the callbacks of the run were created by a render that had opencvLoaded true
SeesOpenCV(r) == [r EXCEPT !.cv = TRUE]

\* initCamera has created the camera and called camera.start()
Started(r) == [r EXCEPT !.timer = "none", !.cam = "running"]

\* initCamera has found MediaPipe missing and set the retry timer
Retrying(r) == [r EXCEPT !.timer = "retry"]

\* initCamera has found videoRef.current null: no camera is created
NoVideo(r) == [r EXCEPT !.timer = "none"]

\* The cleanup of the run: clearTimeout(timer) reaches the timer set by the
\* effect body only, camera.stop() a camera that exists already.
Cleanup(r) ==
    [r EXCEPT !.timer = IF @ = "initial" THEN "none" ELSE @,
              !.cam = IF @ = "running" THEN "stopped" ELSE @,
              !.cleaned = TRUE]

----------------------------------------------------------------------------
(* Initial state: the component has just been mounted *)

NoEvent == [op |-> "init", face |-> FALSE, ear |-> NaN, rose |-> FALSE,
            fell |-> FALSE, endedRun |-> 0, runOpen |-> FALSE, runGain |-> 0]

NoRun == [len |-> 0, blinks |-> 0, base |-> 0, open |-> TRUE]

NoForm == [name |-> "", email |-> "", password |-> "", confirmPassword |-> ""]

\* the view state of a Dashboard that has just been mounted
ViewInit ==
    /\ leftEyeRedness = 0
    /\ rightEyeRedness = 0
    /\ eyeHealthStatus = ""
    /\ blinkHealthStatus = ""
    /\ sampledFrames = 0
    /\ rednessCalls = <<>>
    /\ modelLoad = "tiny"
    /\ modelsLoaded = FALSE
    /\ emotion = "Loading..."
    /\ emotionHistory = <<>>
    /\ emotionInterval = FALSE
    /\ emotionLog = <<>>

\* the user has logged in and no signup form has been submitted
AuthInit ==
    /\ signupForm = NoForm
    /\ alert = ""
    /\ lastAuth = "login"

Init ==
    /\ variant \in Variants
    /\ clock = 0
    /\ camera = "off"
    /\ startTimeRef = 0
    /\ blinkStateRef = FALSE
    /\ isBlinking = FALSE
    /\ eyesDetected = FALSE
    /\ blinkCount = 0
    /\ avgBlinkRate = ZeroRate
    /\ recentBlinksRef = <<>>
    /\ currentBPM = 0
    /\ nextBpmTick = BPM_INTERVAL
    /\ lastEvent = NoEvent
    /\ run = NoRun
    /\ dipped = FALSE
    /\ closings = 0
    /\ landmarks = <<>>
    /\ blinkLog = <<>>
    /\ route = "/dashboard"
    /\ isAuthenticated = TRUE
    /\ opencvLoaded = FALSE
    /\ mediaPipeReady = FALSE
    /\ effects = <<EffectRun(variant, FALSE, 1)>>
    /\ mounts = 1
    /\ ViewInit
    /\ AuthInit

----------------------------------------------------------------------------
(* Time passes *)

Advance ==
    /\ \E t \in TimePoints : t > clock /\ clock' = t
    /\ lastEvent' = [NoEvent EXCEPT !.op = "advance"]
    /\ UNCHANGED <<variant, camera, startTimeRef, blinkStateRef, isBlinking,
                   eyesDetected, blinkCount, avgBlinkRate, recentBlinksRef,
                   currentBPM, nextBpmTick, run, dipped, closings, landmarks,
                   blinkLog>>
    /\ UNCHANGED lifeVars
    /\ UNCHANGED viewVars
    /\ UNCHANGED emotionVars
    /\ UNCHANGED authVars

(* initCamera has found window.FaceMesh and window.Camera and called camera.start() *)
InitCamera ==
    /\ camera = "off"
    /\ clock >= startTimeRef + InitDelay(variant)
    /\ camera' = "on"
    /\ mediaPipeReady' = TRUE
    /\ effects' = [effects EXCEPT ![Len(effects)] = Started(@)]
    /\ lastEvent' = [NoEvent EXCEPT !.op = "camera"]
    /\ UNCHANGED <<variant, clock, startTimeRef, blinkStateRef, isBlinking,
                   eyesDetected, blinkCount, avgBlinkRate, recentBlinksRef,
                   currentBPM, nextBpmTick, run, dipped, closings, landmarks,
                   blinkLog, route, isAuthenticated, opencvLoaded, mounts>>
    /\ UNCHANGED viewVars
    /\ UNCHANGED emotionVars
    /\ UNCHANGED authVars

\* Variant of BpmUpdate that reports the window without pruning it.
BpmUpdate_NoPrune ==
    /\ variant = "hyst"
    /\ clock >= nextBpmTick
    /\ currentBPM' = Len(recentBlinksRef)
    /\ nextBpmTick' = clock + BPM_INTERVAL
    /\ lastEvent' = [NoEvent EXCEPT !.op = "tick"]
    /\ UNCHANGED <<variant, clock, camera, startTimeRef, blinkStateRef, isBlinking,
                   eyesDetected, blinkCount, avgBlinkRate, run, dipped, closings,
                   landmarks, blinkLog, recentBlinksRef>>
    /\ UNCHANGED lifeVars
    /\ UNCHANGED viewVars
    /\ UNCHANGED emotionVars
    /\ UNCHANGED authVars

\* Variant of BpmUpdate that starts a new window at every tick.
BpmUpdate_Clear ==
    /\ variant = "hyst"
    /\ clock >= nextBpmTick
    /\ recentBlinksRef' = <<>>
    /\ currentBPM' = 0
    /\ nextBpmTick' = clock + BPM_INTERVAL
    /\ lastEvent' = [NoEvent EXCEPT !.op = "tick"]
    /\ UNCHANGED <<variant, clock, camera, startTimeRef, blinkStateRef, isBlinking,
                   eyesDetected, blinkCount, avgBlinkRate, run, dipped, closings,
                   landmarks, blinkLog>>
    /\ UNCHANGED lifeVars
    /\ UNCHANGED viewVars
    /\ UNCHANGED emotionVars
    /\ UNCHANGED authVars

(* bpmUpdateInterval: the 5-second timer of part_000 *)
BpmUpdate ==
    /\ variant = "hyst"
    /\ clock >= nextBpmTick
    /\ recentBlinksRef' = PruneWindow(recentBlinksRef, clock)
    /\ currentBPM' = Len(recentBlinksRef')
    /\ nextBpmTick' = clock + BPM_INTERVAL
    /\ lastEvent' = [NoEvent EXCEPT !.op = "tick"]
    /\ UNCHANGED <<variant, clock, camera, startTimeRef, blinkStateRef, isBlinking,
                   eyesDetected, blinkCount, avgBlinkRate, run, dipped, closings,
                   landmarks, blinkLog>>
    /\ UNCHANGED lifeVars
    /\ UNCHANGED viewVars
    /\ UNCHANGED emotionVars
    /\ UNCHANGED authVars

----------------------------------------------------------------------------
(* faceMesh.onResults, branch by branch *)

\* Variant of EarlyReturn that reports "no eyes" before it returns.
EarlyReturn_ClearsEyes ==
    /\ eyesDetected' = FALSE
    /\ UNCHANGED <<blinkStateRef, isBlinking, blinkCount,
                   avgBlinkRate, recentBlinksRef, currentBPM>>

\* if (!canvas) return;  if (!ctx) return;
EarlyReturn ==
    UNCHANGED <<blinkStateRef, isBlinking, eyesDetected, blinkCount,
                avgBlinkRate, recentBlinksRef, currentBPM>>

\* Variant of NoFaceBranch that treats a missing face as open eyes.
NoFaceBranch_Reopen ==
    /\ eyesDetected' = FALSE
    /\ blinkStateRef' = FALSE
    /\ isBlinking' = FALSE
    /\ UNCHANGED <<blinkCount, avgBlinkRate, recentBlinksRef, currentBPM>>

\* no face: setEyesDetected(false); return;
NoFaceBranch ==
    /\ eyesDetected' = FALSE
    /\ UNCHANGED <<blinkStateRef, isBlinking, blinkCount, avgBlinkRate,
                   recentBlinksRef, currentBPM>>

\* the blink branch: count, rate, window (part_000 only), latch
BlinkBranch ==
    /\ blinkCount' = blinkCount + 1
    /\ avgBlinkRate' = BlinkRate(blinkCount + 1, clock - startTimeRef)
    /\ IF variant = "hyst"
       THEN /\ recentBlinksRef' = PruneWindow(Append(recentBlinksRef, clock), clock)
            /\ currentBPM' = Len(recentBlinksRef')
       ELSE UNCHANGED <<recentBlinksRef, currentBPM>>
    /\ isBlinking' = TRUE
    /\ blinkStateRef' = TRUE

\* Variant of ReopenBranch that counts the re-opening edge as well.
ReopenBranch_Counts ==
    /\ isBlinking' = FALSE
    /\ blinkStateRef' = FALSE
    /\ blinkCount' = blinkCount + 1
    /\ UNCHANGED <<avgBlinkRate, recentBlinksRef, currentBPM>>

\* the re-open branch
ReopenBranch ==
    /\ isBlinking' = FALSE
    /\ blinkStateRef' = FALSE
    /\ UNCHANGED <<blinkCount, avgBlinkRate, recentBlinksRef, currentBPM>>

\* neither condition holds: nothing is assigned
HoldBranch ==
    UNCHANGED <<blinkStateRef, isBlinking, blinkCount, avgBlinkRate,
                recentBlinksRef, currentBPM>>

\* Variant of DetectBranch whose re-open test repeats the "not blinking" guard.
DetectBranch_Sticky(ear) ==
    /\ eyesDetected' = TRUE
    /\ IF IsClosing(variant, ear, blinkStateRef) THEN BlinkBranch
       ELSE IF IsOpening(variant, ear) /\ ~blinkStateRef THEN ReopenBranch
       ELSE HoldBranch

\* the detection step on a frame with a face
DetectBranch(ear) ==
    /\ eyesDetected' = TRUE
    /\ IF IsClosing(variant, ear, blinkStateRef) THEN BlinkBranch
       ELSE IF IsOpening(variant, ear) THEN ReopenBranch
       ELSE HoldBranch

\* history of the run of frames whose avgEAR is below the closing threshold
RunAfter(ear, rose) ==
    IF JsLt(ear, CloseThreshold(variant))
    THEN IF run.len = 0
         THEN [len |-> 1, blinks |-> IF rose THEN 1 ELSE 0,
               base |-> blinkCount, open |-> ~blinkStateRef]
         ELSE [run EXCEPT !.len = @ + 1, !.blinks = @ + IF rose THEN 1 ELSE 0]
    ELSE NoRun

\* the callback returns before the detection step: no canvas or no 2-D context
OnResultsEarly ==
    /\ EarlyReturn
    /\ lastEvent' = [NoEvent EXCEPT !.op = "early"]
    /\ UNCHANGED <<run, dipped, closings, blinkLog>>

\* the callback on a result without face landmarks
OnResultsNoFace ==
    /\ NoFaceBranch
    /\ lastEvent' = [NoEvent EXCEPT !.op = "frame"]
    /\ UNCHANGED <<run, dipped, closings, blinkLog>>

\* the callback on a result with a face whose eyes give leftEAR and rightEAR
OnResultsFace(leftEAR, rightEAR) ==
    LET ear == avgEAR(leftEAR, rightEAR)
        below == JsLt(ear, CloseThreshold(variant))
    IN  /\ below => run.len < MaxRun
        /\ IsClosing(variant, ear, blinkStateRef) => blinkCount < MaxBlinks
        /\ DetectBranch(ear)
        /\ lastEvent' = [op |-> "frame", face |-> TRUE, ear |-> ear,
                         rose |-> ~blinkStateRef /\ blinkStateRef',
                         fell |-> blinkStateRef /\ ~blinkStateRef',
                         endedRun |-> IF below THEN 0 ELSE run.len,
                         runOpen |-> ~below /\ run.len > 0 /\ run.open,
                         runGain |-> IF below \/ run.len = 0 THEN 0
                                     ELSE blinkCount' - run.base]
        /\ run' = RunAfter(ear, ~blinkStateRef /\ blinkStateRef')
        /\ dipped' = (dipped \/ ~JsGe(ear, CloseThreshold(variant)))
        /\ closings' = closings + IF ~blinkStateRef /\ blinkStateRef' THEN 1 ELSE 0
        /\ blinkLog' = IF variant = "hyst" /\ ~blinkStateRef /\ blinkStateRef'
                       THEN Append(blinkLog, clock) ELSE blinkLog

OnResults ==
    /\ camera = "on"
    /\ \/ OnResultsEarly
       \/ OnResultsNoFace
       \/ \E leftEAR \in EARValues, rightEAR \in EARValues :
            OnResultsFace(leftEAR, rightEAR)
    /\ UNCHANGED <<variant, clock, camera, startTimeRef, nextBpmTick, landmarks>>
    /\ UNCHANGED lifeVars
    /\ UNCHANGED viewVars
    /\ UNCHANGED emotionVars
    /\ UNCHANGED authVars

\* the callback on a result whose first face is the landmark set lms
OnResultsLandmarks ==
    /\ camera = "on"
    /\ \E lms \in FaceSets :
         /\ landmarks' = lms
         /\ OnResultsFace(calcEAR(lms, LEFT_EYE), calcEAR(lms, RIGHT_EYE))
    /\ UNCHANGED <<variant, clock, camera, startTimeRef, nextBpmTick>>
    /\ UNCHANGED lifeVars
    /\ UNCHANGED viewVars
    /\ UNCHANGED emotionVars
    /\ UNCHANGED authVars

----------------------------------------------------------------------------

Next == Advance \/ InitCamera \/ BpmUpdate \/ OnResults

Spec == Init /\ [][Next]_vars

\* The interval timer keeps firing and time keeps passing.
FairSpec == Spec /\ WF_vars(BpmUpdate) /\ WF_vars(Advance)

(* The detector fed with landmark sets, from the moment the camera runs *)

InitEAR ==
    /\ variant \in Variants
    /\ clock = 500
    /\ camera = "on"
    /\ startTimeRef = 0
    /\ blinkStateRef = FALSE
    /\ isBlinking = FALSE
    /\ eyesDetected = FALSE
    /\ blinkCount = 0
    /\ avgBlinkRate = ZeroRate
    /\ recentBlinksRef = <<>>
    /\ currentBPM = 0
    /\ nextBpmTick = BPM_INTERVAL
    /\ lastEvent = [NoEvent EXCEPT !.op = "camera"]
    /\ run = NoRun
    /\ dipped = FALSE
    /\ closings = 0
    /\ landmarks = <<>>
    /\ blinkLog = <<>>
    /\ route = "/dashboard"
    /\ isAuthenticated = TRUE
    /\ opencvLoaded = FALSE
    /\ mediaPipeReady = TRUE
    /\ effects = <<Started(EffectRun(variant, TRUE, 1))>>
    /\ mounts = 1
    /\ ViewInit
    /\ AuthInit

\* the callback on a result without face landmarks: no landmark set is read
OnResultsNoLandmarks ==
    /\ camera = "on"
    /\ OnResultsNoFace
    /\ landmarks' = <<>>
    /\ UNCHANGED <<variant, clock, camera, startTimeRef, nextBpmTick>>
    /\ UNCHANGED lifeVars
    /\ UNCHANGED viewVars
    /\ UNCHANGED emotionVars
    /\ UNCHANGED authVars

NextEAR == OnResultsLandmarks \/ OnResultsNoLandmarks

SpecEAR == InitEAR /\ [][NextEAR]_vars

----------------------------------------------------------------------------
(* The life of the Dashboard: the scripts load, the camera effect runs and
   re-runs, the user logs out and in again.  The detector is driven here by
   open and closed eyes only and up to LifeHorizon. *)

MaxMounts == 2

LifeHorizon == 15000

LifeEARs == {200, 300}

\* The router renders the Dashboard at /dashboard and nowhere else.
DashboardMounted == route = "/dashboard"

\* Frames reach the refs of the mounted Dashboard from the running cameras
\* that its own effect runs have created.
CameraOf(effs, rt, m) ==
    IF rt = "/dashboard"
       /\ \E g \in 1..Len(effs) : effs[g].cam = "running" /\ effs[g].mount = m
    THEN "on" ELSE "off"

sessionVars == <<startTimeRef, blinkStateRef, isBlinking, eyesDetected, blinkCount,
                 avgBlinkRate, recentBlinksRef, currentBPM, nextBpmTick, run,
                 dipped, closings, landmarks, blinkLog>>

\* The state declarations of a Dashboard that is mounted now.
MountState ==
    /\ startTimeRef' = clock
    /\ blinkStateRef' = FALSE
    /\ isBlinking' = FALSE
    /\ eyesDetected' = FALSE
    /\ blinkCount' = 0
    /\ avgBlinkRate' = ZeroRate
    /\ recentBlinksRef' = <<>>
    /\ currentBPM' = 0
    /\ opencvLoaded' = FALSE
    /\ nextBpmTick' = clock + BPM_INTERVAL
    /\ run' = NoRun
    /\ dipped' = FALSE
    /\ closings' = 0
    /\ landmarks' = <<>>
    /\ blinkLog' = <<>>
    /\ mounts' = mounts + 1
    /\ leftEyeRedness' = 0
    /\ rightEyeRedness' = 0
    /\ eyeHealthStatus' = ""
    /\ blinkHealthStatus' = ""
    /\ sampledFrames' = 0
    /\ rednessCalls' = <<>>
    /\ modelLoad' = "tiny"
    /\ modelsLoaded' = FALSE
    /\ emotion' = "Loading..."
    /\ emotionHistory' = <<>>
    /\ emotionInterval' = FALSE
    /\ emotionLog' = <<>>

\* The Dashboard is mounted and stays: its camera effect runs.
Mount ==
    /\ MountState
    /\ effects' = Append(effects, EffectRun(variant, mediaPipeReady, mounts + 1))

\* The MediaPipe scripts have defined window.FaceMesh and window.Camera.
MediaPipeLoads ==
    /\ ~mediaPipeReady
    /\ mediaPipeReady' = TRUE
    /\ lastEvent' = [NoEvent EXCEPT !.op = "mediapipe"]
    /\ UNCHANGED <<variant, clock, camera, route, isAuthenticated, opencvLoaded,
                   effects, mounts>>
    /\ UNCHANGED sessionVars
    /\ UNCHANGED viewVars
    /\ UNCHANGED emotionVars
    /\ UNCHANGED authVars

\* A timer of effect run g calls initCamera; the first timer of part_000 not
\* before its 500 ms.
TimerFires(g) ==
    /\ effects[g].timer # "none"
    /\ effects[g].timer = "initial" => clock >= startTimeRef + InitDelay(variant)
    /\ effects' = [effects EXCEPT ![g] =
                      IF ~mediaPipeReady THEN Retrying(@)
                      ELSE IF DashboardMounted /\ @.mount = mounts THEN Started(@)
                      ELSE NoVideo(@)]
    /\ camera' = CameraOf(effects', route, mounts)
    /\ lastEvent' = [NoEvent EXCEPT !.op = "timer"]
    /\ UNCHANGED <<variant, clock, route, isAuthenticated, opencvLoaded,
                   mediaPipeReady, mounts>>
    /\ UNCHANGED sessionVars
    /\ UNCHANGED viewVars
    /\ UNCHANGED emotionVars
    /\ UNCHANGED authVars

\* Variant of OpenCVReady whose new effect run starts the blink count again.
OpenCVReady_Resets ==
    /\ DashboardMounted
    /\ ~opencvLoaded
    /\ opencvLoaded' = TRUE
    /\ effects' = Append([effects EXCEPT ![Len(effects)] = Cleanup(@)],
                         SeesOpenCV(EffectRun(variant, mediaPipeReady, mounts)))
    /\ camera' = CameraOf(effects', route, mounts)
    /\ blinkCount' = 0
    /\ lastEvent' = [NoEvent EXCEPT !.op = "opencv"]
    /\ UNCHANGED <<variant, clock, route, isAuthenticated, mediaPipeReady, mounts>>
    /\ UNCHANGED <<startTimeRef, blinkStateRef, isBlinking, eyesDetected,
                   avgBlinkRate, recentBlinksRef, currentBPM, nextBpmTick, run,
                   dipped, closings, landmarks, blinkLog>>
    /\ UNCHANGED viewVars
    /\ UNCHANGED emotionVars
    /\ UNCHANGED authVars

\* checkOpenCV finds window.cv and sets opencvLoaded: the camera effect is
\* cleaned up and runs again.
OpenCVReady ==
    /\ DashboardMounted
    /\ ~opencvLoaded
    /\ opencvLoaded' = TRUE
    /\ effects' = Append([effects EXCEPT ![Len(effects)] = Cleanup(@)],
                         SeesOpenCV(EffectRun(variant, mediaPipeReady, mounts)))
    /\ camera' = CameraOf(effects', route, mounts)
    /\ lastEvent' = [NoEvent EXCEPT !.op = "opencv"]
    /\ UNCHANGED <<variant, clock, route, isAuthenticated, mediaPipeReady, mounts>>
    /\ UNCHANGED sessionVars
    /\ UNCHANGED viewVars
    /\ UNCHANGED emotionVars
    /\ UNCHANGED authVars

\* handleLogout; the Dashboard leaves the screen and its effects are cleaned up.
Logout ==
    /\ DashboardMounted
    /\ isAuthenticated' = FALSE
    /\ lastAuth' = "logout"
    /\ route' = "/login"
    /\ effects' = IF DashboardMounted' THEN effects
                  ELSE [effects EXCEPT ![Len(effects)] = Cleanup(@)]
    /\ camera' = CameraOf(effects', route', mounts)
    /\ lastEvent' = [NoEvent EXCEPT !.op = "logout"]
    /\ UNCHANGED <<variant, clock, opencvLoaded, mediaPipeReady, mounts>>
    /\ UNCHANGED sessionVars
    /\ UNCHANGED viewVars
    /\ emotionInterval' = IF DashboardMounted' THEN emotionInterval ELSE FALSE
    /\ UNCHANGED <<modelLoad, modelsLoaded, emotion, emotionHistory, emotionLog>>
    /\ UNCHANGED <<signupForm, alert>>

\* handleLogin with the two fields filled or not; the Dashboard is mounted.
Login ==
    /\ route = "/login"
    /\ mounts < MaxMounts
    /\ \E email \in BOOLEAN, password \in BOOLEAN :
         IF email /\ password
         THEN /\ isAuthenticated' = TRUE
              /\ lastAuth' = "login"
              /\ route' = "/dashboard"
              /\ IF DashboardMounted'
                 THEN Mount
                 ELSE UNCHANGED <<opencvLoaded, effects, mounts>>
                      /\ UNCHANGED sessionVars
                      /\ UNCHANGED viewVars
                      /\ UNCHANGED emotionVars
              /\ camera' = CameraOf(effects', route', mounts')
         ELSE /\ UNCHANGED <<camera, route, isAuthenticated, opencvLoaded,
                             effects, mounts>>
              /\ UNCHANGED sessionVars
              /\ UNCHANGED viewVars
              /\ UNCHANGED emotionVars
              /\ UNCHANGED lastAuth
    /\ lastEvent' = [NoEvent EXCEPT !.op = "login"]
    /\ UNCHANGED <<variant, clock, mediaPipeReady, signupForm, alert>>

\* some pending timer of some effect run fires
InitCameraTimer == \E g \in 1..Len(effects) : TimerFires(g)

LifeAdvance == Advance /\ clock' <= LifeHorizon

\* The interval is cleared when the Dashboard is unmounted.
LifeBpmUpdate == DashboardMounted /\ BpmUpdate

LifeFrame ==
    /\ camera = "on"
    /\ \/ OnResultsNoFace
       \/ \E ear \in LifeEARs : OnResultsFace(ear, ear)
    /\ UNCHANGED <<variant, clock, camera, startTimeRef, nextBpmTick, landmarks>>
    /\ UNCHANGED lifeVars
    /\ UNCHANGED viewVars
    /\ UNCHANGED emotionVars
    /\ UNCHANGED authVars

NextLife ==
    \/ LifeAdvance
    \/ MediaPipeLoads
    \/ InitCameraTimer
    \/ OpenCVReady
    \/ Logout
    \/ Login
    \/ LifeBpmUpdate
    \/ LifeFrame

SpecLife == Init /\ [][NextLife]_vars

----------------------------------------------------------------------------
(* The derived insights of a render, applied to a Dashboard that has counted
   n blinks one second apart and has measured some redness *)

MaxBPM == 30

RednessValues == {0, 8, 9, 15, 16, 40}

\* the range the dashboard prints as "Healthy Range"
HealthyRange == 15..20

getEyeHealthStatus(left, right) ==
    IF left + right > 2 * 15 THEN "High Risk"
    ELSE IF left + right > 2 * 8 THEN "Moderate"
    ELSE "Healthy"

getBlinkHealthStatus(bpm) ==
    IF bpm = 0 THEN "Measuring..."
    ELSE IF bpm < 10 THEN "Too Low"
    ELSE IF bpm > 25 THEN "Too High"
    ELSE "Optimal"

BlinkStatuses == {"Measuring...", "Too Low", "Too High", "Optimal"}

InitStatus ==
    /\ variant = "hyst"
    /\ \E n \in 0..MaxBPM :
         /\ clock = 500 + 1000 * n
         /\ blinkCount = n
         /\ closings = n
         /\ currentBPM = n
         /\ recentBlinksRef = [i \in 1..n |-> 500 + 1000 * i]
         /\ blinkLog = [i \in 1..n |-> 500 + 1000 * i]
         /\ avgBlinkRate = IF n = 0 THEN ZeroRate ELSE BlinkRate(n, 500 + 1000 * n)
         /\ blinkStateRef = (n > 0)
         /\ isBlinking = (n > 0)
         /\ eyesDetected = (n > 0)
         /\ dipped = (n > 0)
    /\ camera = "on"
    /\ startTimeRef = 0
    /\ nextBpmTick = BPM_INTERVAL * ((clock \div BPM_INTERVAL) + 1)
    /\ lastEvent = [NoEvent EXCEPT !.op = "tick"]
    /\ run = NoRun
    /\ landmarks = <<>>
    /\ route = "/dashboard"
    /\ isAuthenticated = TRUE
    /\ opencvLoaded = TRUE
    /\ mediaPipeReady = TRUE
    /\ effects = <<Cleanup(Started(EffectRun(variant, TRUE, 1))),
                  SeesOpenCV(Started(EffectRun(variant, TRUE, 1)))>>
    /\ mounts = 1
    /\ leftEyeRedness \in RednessValues
    /\ rightEyeRedness \in RednessValues
    /\ eyeHealthStatus = ""
    /\ blinkHealthStatus = ""
    /\ sampledFrames = 0
    /\ rednessCalls = <<>>
    /\ modelLoad = "done"
    /\ modelsLoaded = TRUE
    /\ emotion = "neutral"
    /\ emotionHistory = <<"neutral">>
    /\ emotionInterval = TRUE
    /\ emotionLog = <<"neutral">>
    /\ AuthInit

\* a render of the Dashboard computes the two statuses from its state
Render ==
    /\ eyeHealthStatus' = getEyeHealthStatus(leftEyeRedness, rightEyeRedness)
    /\ blinkHealthStatus' = getBlinkHealthStatus(currentBPM)
    /\ lastEvent' = [NoEvent EXCEPT !.op = "render"]
    /\ UNCHANGED <<variant, clock, camera, leftEyeRedness, rightEyeRedness,
                   sampledFrames, rednessCalls>>
    /\ UNCHANGED sessionVars
    /\ UNCHANGED lifeVars
    /\ UNCHANGED emotionVars
    /\ UNCHANGED authVars

NextStatus == Render

SpecStatus == InitStatus /\ [][NextStatus]_vars

----------------------------------------------------------------------------
(* detectEyeRedness: the steps of one call inside its try block, in the order
   of the code.  A step that throws is not completed and leads to the catch
   block. *)

Alloc(m) == [kind |-> "alloc", mat |-> m]

Op(f) == [kind |-> "op", mat |-> f]

Delete(m) == [kind |-> "delete", mat |-> m]

RednessSteps ==
    << Op("getImageData"),
       Alloc("src"), Alloc("hsv"),
       Op("cvtColor"), Op("cvtColor"),
       Alloc("lower1"), Alloc("upper1"), Alloc("lower2"), Alloc("upper2"),
       Alloc("mask1"), Alloc("mask2"), Alloc("mask"),
       Op("inRange"), Op("inRange"), Op("bitwise_or"), Op("countNonZero"),
       Delete("src"), Delete("hsv"),
       Delete("lower1"), Delete("upper1"), Delete("lower2"), Delete("upper2"),
       Delete("mask1"), Delete("mask2"), Delete("mask") >>

\* the Mats that exist when the first k steps have been completed
LiveAfter(k) ==
    { RednessSteps[i].mat : i \in { j \in 1..k : RednessSteps[j].kind = "alloc" } }
    \ { RednessSteps[i].mat : i \in { j \in 1..k : RednessSteps[j].kind = "delete" } }

NoRedness(live) == [redness |-> 0, live |-> live, failed |-> TRUE]

\* in.cv: window.cv and the opencvLoaded of the closure; in.width, in.height:
\* the clipped bounding box of the eye region; in.ctx: the temporary canvas
\* gave a 2-D context; in.throwAt: the step that throws, 0 if none does;
\* in.redPixels: what countNonZero returns.
detectEyeRedness(in) ==
    IF ~in.cv THEN NoRedness({})
    ELSE IF in.width <= 0 \/ in.height <= 0 THEN NoRedness({})
    ELSE IF ~in.ctx THEN NoRedness({})
    ELSE IF in.throwAt # 0 THEN NoRedness(LiveAfter(in.throwAt - 1))
    ELSE [redness |-> (in.redPixels * 100) \div (in.width * in.height),
          live |-> LiveAfter(Len(RednessSteps)),
          failed |-> FALSE]

\* What a frame gives the two calls: the context and the failing step are
\* those of the frame, the region and its red pixels those of each eye; a
\* region of 2 x 5 pixels makes every percentage a whole number.
EyeRegions == {[width |-> 0, redPixels |-> 0], [width |-> 2, redPixels |-> 0],
               [width |-> 2, redPixels |-> 1], [width |-> 2, redPixels |-> 4]}

RegionHeight == 5

\* A frame on which a step throws has a context and no red pixels counted:
\* neither is looked at on that path.
FrameImages ==
    { img \in [ctx : BOOLEAN, throwAt : 0..Len(RednessSteps), left : EyeRegions,
               right : EyeRegions] :
        img.throwAt # 0 => /\ img.ctx
                           /\ img.left.redPixels = 0
                           /\ img.right.redPixels = 0 }

RednessInput(cv, img, eye) ==
    [cv |-> cv, width |-> eye.width, height |-> RegionHeight, ctx |-> img.ctx,
     throwAt |-> img.throwAt, redPixels |-> eye.redPixels]

OpenEAR == 300

\* the callback of effect run g on a frame with a face and open eyes that
\* draws Math.random() < 0.2
OnResultsSampled(g) ==
    /\ camera = "on"
    /\ effects[g].cam = "running"
    /\ effects[g].mount = mounts
    /\ sampledFrames' = 1 - sampledFrames
    /\ IF effects[g].cv
       THEN \E img \in FrameImages :
              LET leftRedness == detectEyeRedness(RednessInput(TRUE, img, img.left))
                  rightRedness == detectEyeRedness(RednessInput(TRUE, img, img.right))
              IN  /\ leftEyeRedness' = leftRedness.redness
                  /\ rightEyeRedness' = rightRedness.redness
                  /\ rednessCalls' = <<leftRedness, rightRedness>>
       ELSE UNCHANGED <<leftEyeRedness, rightEyeRedness, rednessCalls>>
    /\ OnResultsFace(OpenEAR, OpenEAR)
    /\ UNCHANGED <<variant, clock, camera, startTimeRef, nextBpmTick, landmarks,
                   eyeHealthStatus, blinkHealthStatus>>
    /\ UNCHANGED lifeVars
    /\ UNCHANGED emotionVars
    /\ UNCHANGED authVars

SampledFrame == \E g \in 1..Len(effects) : OnResultsSampled(g)

(* The Dashboard from its mount on, with the frames that sample the redness *)

NextRedness ==
    \/ LifeAdvance
    \/ MediaPipeLoads
    \/ InitCameraTimer
    \/ OpenCVReady
    \/ SampledFrame

SpecRedness == Init /\ [][NextRedness]_vars

----------------------------------------------------------------------------
(* The App component with redness analysis: no router, one camera effect with
   an empty dependency list, the detector of the older revision *)

InitApp ==
    /\ variant = "app"
    /\ clock = 0
    /\ camera = "off"
    /\ startTimeRef = 0
    /\ blinkStateRef = FALSE
    /\ isBlinking = FALSE
    /\ eyesDetected = FALSE
    /\ blinkCount = 0
    /\ avgBlinkRate = ZeroRate
    /\ recentBlinksRef = <<>>
    /\ currentBPM = 0
    /\ nextBpmTick = BPM_INTERVAL
    /\ lastEvent = NoEvent
    /\ run = NoRun
    /\ dipped = FALSE
    /\ closings = 0
    /\ landmarks = <<>>
    /\ blinkLog = <<>>
    /\ route = "/"
    /\ isAuthenticated = FALSE
    /\ opencvLoaded = FALSE
    /\ mediaPipeReady = FALSE
    /\ effects = <<EffectRun(variant, FALSE, 1)>>
    /\ mounts = 1
    /\ ViewInit
    /\ signupForm = NoForm
    /\ alert = ""
    /\ lastAuth = "none"

\* the retry timer of the only effect run calls initCamera
AppInitCamera ==
    /\ effects[1].timer # "none"
    /\ effects' = [effects EXCEPT ![1] =
                      IF mediaPipeReady THEN Started(@) ELSE Retrying(@)]
    /\ camera' = IF mediaPipeReady THEN "on" ELSE camera
    /\ lastEvent' = [NoEvent EXCEPT !.op = "timer"]
    /\ UNCHANGED <<variant, clock, route, isAuthenticated, opencvLoaded,
                   mediaPipeReady, mounts>>
    /\ UNCHANGED sessionVars
    /\ UNCHANGED viewVars
    /\ UNCHANGED emotionVars
    /\ UNCHANGED authVars

\* checkOpenCV finds window.cv and sets opencvLoaded; the camera effect, whose
\* dependency list is empty, does not run again
AppOpenCVReady ==
    /\ ~opencvLoaded
    /\ opencvLoaded' = TRUE
    /\ lastEvent' = [NoEvent EXCEPT !.op = "opencv"]
    /\ UNCHANGED <<variant, clock, camera, route, isAuthenticated,
                   mediaPipeReady, effects, mounts>>
    /\ UNCHANGED sessionVars
    /\ UNCHANGED viewVars
    /\ UNCHANGED emotionVars
    /\ UNCHANGED authVars

NextApp ==
    \/ LifeAdvance
    \/ MediaPipeLoads
    \/ AppInitCamera
    \/ AppOpenCVReady
    \/ LifeFrame
    \/ SampledFrame

SpecApp == InitApp /\ [][NextApp]_vars

\* The scripts load, the timers fire, and the camera keeps delivering frames
\* that draw the sample.
FairSpecApp ==
    /\ SpecApp
    /\ WF_vars(MediaPipeLoads)
    /\ WF_vars(AppInitCamera)
    /\ WF_vars(AppOpenCVReady)
    /\ WF_vars(SampledFrame)

----------------------------------------------------------------------------
(* Emotion detection: loadModels, the 300 ms interval and the history that
   feeds the dominant-emotion insight.  Detections name "neutral", and at most
   MaxOther of them another emotion. *)

MaxDetections == 22

MaxOther == 1

EmotionNames == {"neutral", "happy"}

EmotionHistoryLimit == 20

\* Variant of KeepLast that keeps the oldest n entries.
KeepLast_First(h, n) == IF Len(h) <= n THEN h ELSE SubSeq(h, 1, n)

\* h.slice(-n)
KeepLast(h, n) == IF Len(h) <= n THEN h ELSE SubSeq(h, Len(h) - n + 1, Len(h))

Others(log) == Cardinality({i \in 1..Len(log) : log[i] # "neutral"})

\* the model loadModels is waiting for has been loaded; after the second one
\* setModelsLoaded(true) makes the emotion effect set its interval
LoadModel ==
    /\ DashboardMounted
    /\ modelLoad \in {"tiny", "expression"}
    /\ IF modelLoad = "tiny"
       THEN /\ modelLoad' = "expression"
            /\ UNCHANGED <<modelsLoaded, emotionInterval>>
       ELSE /\ modelLoad' = "done"
            /\ modelsLoaded' = TRUE
            /\ emotionInterval' = TRUE
    /\ lastEvent' = [NoEvent EXCEPT !.op = "model"]
    /\ UNCHANGED <<variant, clock, camera, emotion, emotionHistory, emotionLog>>
    /\ UNCHANGED sessionVars
    /\ UNCHANGED lifeVars
    /\ UNCHANGED viewVars
    /\ UNCHANGED authVars

\* Variant of LoadFails in which modelsLoaded is set although loading failed.
LoadFails_StillLoaded ==
    /\ DashboardMounted
    /\ modelLoad \in {"tiny", "expression"}
    /\ modelLoad' = "failed"
    /\ emotion' = "Error loading models"
    /\ modelsLoaded' = TRUE
    /\ emotionInterval' = TRUE
    /\ lastEvent' = [NoEvent EXCEPT !.op = "model"]
    /\ UNCHANGED <<variant, clock, camera, emotionHistory, emotionLog>>
    /\ UNCHANGED sessionVars
    /\ UNCHANGED lifeVars
    /\ UNCHANGED viewVars
    /\ UNCHANGED authVars

\* loading the model loadModels is waiting for throws: the catch block
LoadFails ==
    /\ DashboardMounted
    /\ modelLoad \in {"tiny", "expression"}
    /\ modelLoad' = "failed"
    /\ emotion' = "Error loading models"
    /\ lastEvent' = [NoEvent EXCEPT !.op = "model"]
    /\ UNCHANGED <<variant, clock, camera, modelsLoaded, emotionHistory,
                   emotionInterval, emotionLog>>
    /\ UNCHANGED sessionVars
    /\ UNCHANGED lifeVars
    /\ UNCHANGED viewVars
    /\ UNCHANGED authVars

\* A detection started by the interval completes: with the name of the
\* strongest expression, without a face, or by throwing.  The confidence
\* printed after the name in the emotion line is left out.
DetectEmotion ==
    /\ emotionInterval
    /\ DashboardMounted
    /\ \E outcome \in EmotionNames \cup {"noface", "error"} :
         IF outcome \in EmotionNames
         THEN /\ Len(emotionLog) < MaxDetections
              /\ outcome # "neutral" => Others(emotionLog) < MaxOther
              /\ emotion' = outcome
              /\ emotionHistory' = KeepLast(Append(emotionHistory, outcome),
                                            EmotionHistoryLimit)
              /\ emotionLog' = Append(emotionLog, outcome)
              /\ lastEvent' = [NoEvent EXCEPT !.op = "emotion"]
         ELSE /\ UNCHANGED <<emotion, emotionHistory, emotionLog>>
              /\ lastEvent' = [NoEvent EXCEPT !.op = outcome]
    /\ UNCHANGED <<variant, clock, camera, modelLoad, modelsLoaded, emotionInterval>>
    /\ UNCHANGED sessionVars
    /\ UNCHANGED lifeVars
    /\ UNCHANGED viewVars
    /\ UNCHANGED authVars

NextEmotion ==
    \/ LoadModel
    \/ LoadFails
    \/ DetectEmotion
    \/ LifeFrame

SpecEmotion == InitEAR /\ [][NextEmotion]_vars

----------------------------------------------------------------------------
(* Login, signup, logout and the auth check of the Dashboard, from a visitor
   on the login page who has no flag yet *)

\* name and email are empty or not, the passwords also equal or not
TextValues == {"", "a"}

PasswordValues == {"", "a", "b"}

SignupForms ==
    [name : TextValues, email : TextValues, password : PasswordValues,
     confirmPassword : PasswordValues]

\* a string in a condition: true unless empty
Truthy(str) == str # ""

\* name && email && password && password === confirmPassword
SignupValid(f) ==
    /\ Truthy(f.name)
    /\ Truthy(f.email)
    /\ Truthy(f.password)
    /\ f.password = f.confirmPassword

\* Variant of SignupAlert that alerts on every rejected submission.
SignupAlert_WhenRejected(f) ==
    IF ~SignupValid(f) THEN "Passwords do not match!" ELSE ""

\* else if (password !== confirmPassword) alert(...)
SignupAlert(f) ==
    IF ~SignupValid(f) /\ f.password # f.confirmPassword
    THEN "Passwords do not match!"
    ELSE ""

\* the effect run of a Dashboard mounted without the flag
Guest(r) == [r EXCEPT !.guest = TRUE]

InitAuth ==
    /\ variant \in Variants
    /\ clock = 0
    /\ camera = "off"
    /\ startTimeRef = 0
    /\ blinkStateRef = FALSE
    /\ isBlinking = FALSE
    /\ eyesDetected = FALSE
    /\ blinkCount = 0
    /\ avgBlinkRate = ZeroRate
    /\ recentBlinksRef = <<>>
    /\ currentBPM = 0
    /\ nextBpmTick = BPM_INTERVAL
    /\ lastEvent = NoEvent
    /\ run = NoRun
    /\ dipped = FALSE
    /\ closings = 0
    /\ landmarks = <<>>
    /\ blinkLog = <<>>
    /\ route = "/login"
    /\ isAuthenticated = FALSE
    /\ opencvLoaded = FALSE
    /\ mediaPipeReady = FALSE
    /\ effects = <<>>
    /\ mounts = 0
    /\ ViewInit
    /\ signupForm = NoForm
    /\ alert = ""
    /\ lastAuth = "none"

\* handleSignup on the fields f; an accepted submission mounts the Dashboard
Signup ==
    /\ route = "/signup"
    /\ mounts < MaxMounts
    /\ \E f \in SignupForms :
         /\ signupForm' = f
         /\ alert' = SignupAlert(f)
         /\ IF SignupValid(f)
            THEN /\ isAuthenticated' = TRUE
                 /\ lastAuth' = "signup"
                 /\ route' = "/dashboard"
                 /\ IF DashboardMounted'
                    THEN Mount
                    ELSE UNCHANGED <<opencvLoaded, effects, mounts>>
                         /\ UNCHANGED sessionVars
                         /\ UNCHANGED viewVars
                         /\ UNCHANGED emotionVars
                 /\ camera' = CameraOf(effects', route', mounts')
            ELSE /\ UNCHANGED <<camera, route, isAuthenticated, lastAuth,
                                opencvLoaded, effects, mounts>>
                 /\ UNCHANGED sessionVars
                 /\ UNCHANGED viewVars
                 /\ UNCHANGED emotionVars
    /\ lastEvent' = [NoEvent EXCEPT !.op = "signup"]
    /\ UNCHANGED <<variant, clock, mediaPipeReady>>

\* the "Sign up" button of the login page
ShowSignup ==
    /\ route = "/login"
    /\ route' = "/signup"
    /\ lastEvent' = [NoEvent EXCEPT !.op = "link"]
    /\ UNCHANGED <<variant, clock, camera, isAuthenticated, opencvLoaded,
                   mediaPipeReady, effects, mounts>>
    /\ UNCHANGED sessionVars
    /\ UNCHANGED viewVars
    /\ UNCHANGED emotionVars
    /\ UNCHANGED authVars

\* the "Login" button of the signup page
ShowLogin ==
    /\ route = "/signup"
    /\ route' = "/login"
    /\ lastEvent' = [NoEvent EXCEPT !.op = "link"]
    /\ UNCHANGED <<variant, clock, camera, isAuthenticated, opencvLoaded,
                   mediaPipeReady, effects, mounts>>
    /\ UNCHANGED sessionVars
    /\ UNCHANGED viewVars
    /\ UNCHANGED emotionVars
    /\ UNCHANGED authVars

\* Variant of VisitDashboard whose auth check lets a visitor without the flag
\* stay.
VisitDashboard_NoCheck ==
    /\ route # "/dashboard"
    /\ mounts < MaxMounts
    /\ MountState
    /\ route' = "/dashboard"
    /\ effects' = Append(effects, EffectRun(variant, mediaPipeReady, mounts + 1))
    /\ camera' = CameraOf(effects', route', mounts')
    /\ lastEvent' = [NoEvent EXCEPT !.op = "visit"]
    /\ UNCHANGED <<variant, clock, isAuthenticated, mediaPipeReady>>
    /\ UNCHANGED authVars

\* The browser is sent to /dashboard from another page: the Dashboard is
\* mounted and its effects run, the auth check and the camera effect among
\* them; without the flag the auth check has navigated to /login, and the
\* Dashboard is unmounted again.
VisitDashboard ==
    /\ route # "/dashboard"
    /\ mounts < MaxMounts
    /\ MountState
    /\ route' = IF isAuthenticated THEN "/dashboard" ELSE "/login"
    /\ effects' = Append(effects,
                         IF isAuthenticated
                         THEN EffectRun(variant, mediaPipeReady, mounts + 1)
                         ELSE Cleanup(Guest(EffectRun(variant, mediaPipeReady,
                                                     mounts + 1))))
    /\ camera' = CameraOf(effects', route', mounts')
    /\ lastEvent' = [NoEvent EXCEPT !.op =
                        IF isAuthenticated THEN "visit" ELSE "redirect"]
    /\ UNCHANGED <<variant, clock, isAuthenticated, mediaPipeReady>>
    /\ UNCHANGED authVars

NextAuth ==
    \/ Login
    \/ Signup
    \/ Logout
    \/ ShowSignup
    \/ ShowLogin
    \/ VisitDashboard
    \/ MediaPipeLoads
    \/ InitCameraTimer
    \/ LifeAdvance

SpecAuth == InitAuth /\ [][NextAuth]_vars

TypeOK ==
    /\ variant \in Variants
    /\ clock \in TimePoints
    /\ camera \in {"off", "on"}
    /\ blinkStateRef \in BOOLEAN /\ isBlinking \in BOOLEAN /\ eyesDetected \in BOOLEAN
    /\ blinkCount \in 0..MaxBlinks
    /\ avgBlinkRate.den > 0
    /\ currentBPM \in 0..MaxBlinks
    /\ run.len \in 0..MaxRun

----------------------------------------------------------------------------
(* Claims *)

Elapsed == clock - startTimeRef

WindowUpdated == variant = "hyst" /\ (lastEvent.op = "tick" \/ lastEvent.rose)

\* C1: in the 0.30 / 0.25 detector the latch goes false->true at most once
\* within a maximal run of consecutive frames whose avgEAR stays below 0.30.
C1_AtMostOneCloseInRun ==
    (variant = "hyst" /\ run.len > 0) => run.blinks <= 1

\* C2: in the 0.21 / 0.21 detector, a run of k >= 1 consecutive frames below
\* 0.21 that starts with the latch open and is followed by a frame at or above
\* 0.21 raises blinkCount by exactly 1, whatever k is.
C2_OneBlinkPerDip ==
    ( /\ variant = "single"
      /\ lastEvent.op = "frame" /\ lastEvent.face
      /\ lastEvent.endedRun >= 1 /\ lastEvent.runOpen
      /\ JsGe(lastEvent.ear, 210) )
    => lastEvent.runGain = 1

C2_Witness ==
    /\ variant = "single"
    /\ lastEvent.op = "frame" /\ lastEvent.face
    /\ lastEvent.endedRun = 3 /\ lastEvent.runOpen
    /\ JsGe(lastEvent.ear, 210)
    /\ lastEvent.runGain = 1
    /\ ~blinkStateRef

\* C3: while every frame's avgEAR has been at or above the closing threshold,
\* blinkCount is 0, the latch is false and the recent-blink window is empty.
C3_NeverClosing ==
    ~dipped => (blinkCount = 0 /\ ~blinkStateRef /\ recentBlinksRef = <<>>)

C3_Witness ==
    /\ ~dipped
    /\ variant = "hyst"
    /\ lastEvent.op = "frame" /\ lastEvent.face /\ lastEvent.ear = 300
    /\ eyesDetected
    /\ blinkCount = 0

\* C4 as stated: after a blink registered less than 60000 ms after the session
\* start, avgBlinkRate is 0.
C4_ZeroRateInFirstMinute ==
    (lastEvent.rose /\ Elapsed < 60000) => avgBlinkRate.num = 0

\* C4 amended: after a blink registered less than 60000 ms after the session
\* start, avgBlinkRate is 0 only when the elapsed time is 0 ms; otherwise it is
\* newCount / elapsedMinutes, which is greater than newCount.
C4_RateInFirstMinute ==
    (lastEvent.rose /\ Elapsed < 60000) =>
        /\ (avgBlinkRate.num = 0) <=> (Elapsed = 0)
        /\ Elapsed > 0 => /\ avgBlinkRate = [num |-> blinkCount * 60000, den |-> Elapsed]
                          /\ avgBlinkRate.num > blinkCount * avgBlinkRate.den

C4_Witness ==
    /\ lastEvent.rose
    /\ Elapsed > 0 /\ Elapsed < 60000
    /\ blinkCount = 2
    /\ avgBlinkRate.num > 0

\* C5: on every false->true change of the latch blinkCount grows by 1 and
\* avgBlinkRate becomes newCount / elapsedMinutes when the elapsed time is
\* positive and exactly 0 when it is 0; the divisor is never 0.
C5_CountAndRateOnClose ==
    /\ [](avgBlinkRate.den # 0)
    /\ [][ (~blinkStateRef /\ blinkStateRef') =>
             /\ blinkCount' = blinkCount + 1
             /\ IF clock - startTimeRef > 0
                THEN avgBlinkRate' = [num |-> (blinkCount + 1) * 60000,
                                      den |-> clock - startTimeRef]
                ELSE avgBlinkRate' = [num |-> 0, den |-> 1] ]_vars

C5_Witness ==
    /\ lastEvent.rose
    /\ Elapsed = 0
    /\ blinkCount = 1
    /\ avgBlinkRate = [num |-> 0, den |-> 1]

\* C6: a frame without a detected face that reaches the detection step leaves
\* the latch, isBlinking, blinkCount, avgBlinkRate, the window and currentBPM
\* unchanged and sets eyesDetected to false.
C6_NoFaceLeavesState ==
    [][ (lastEvent'.op = "frame" /\ ~lastEvent'.face) =>
          /\ UNCHANGED <<blinkStateRef, isBlinking, blinkCount, avgBlinkRate,
                         recentBlinksRef, currentBPM>>
          /\ eyesDetected' = FALSE ]_vars

C6_Witness ==
    /\ lastEvent.op = "frame" /\ ~lastEvent.face
    /\ blinkStateRef /\ isBlinking
    /\ blinkCount = 2
    /\ ~eyesDetected

\* C7: blinkCount is the number of false->true changes of the latch; a frame
\* that re-opens the latch or leaves it unchanged changes neither blinkCount
\* nor avgBlinkRate nor the window; blinkCount never decreases and grows by at
\* most 1 per step.
C7_CountIsClosings ==
    /\ [](blinkCount = closings)
    /\ [][ /\ blinkCount' \in {blinkCount, blinkCount + 1}
           /\ ( /\ lastEvent'.op \in {"frame", "early"}
                /\ ~(~blinkStateRef /\ blinkStateRef') )
              => UNCHANGED <<blinkCount, avgBlinkRate, recentBlinksRef>> ]_vars

C7_Witness ==
    /\ variant = "hyst"
    /\ lastEvent.op = "frame" /\ lastEvent.fell
    /\ blinkCount = 2 /\ closings = 2

\* C8: right after every update of the rolling window (a blink in the frame
\* callback or a tick of the 5-second timer) every timestamp held is less than
\* 60000 ms older than the update time and currentBPM is the number held.
C8_WindowAfterUpdate ==
    WindowUpdated =>
        /\ \A i \in 1..Len(recentBlinksRef) : clock - recentBlinksRef[i] < 60000
        /\ currentBPM = Len(recentBlinksRef)

C8_Witness ==
    /\ variant = "hyst"
    /\ lastEvent.op = "tick"
    /\ blinkCount = 3
    /\ clock = 75000
    /\ recentBlinksRef = <<30000, 45000>>
    /\ currentBPM = 2

\* C9: an update of the rolling window removes a timestamp only if it is older
\* than 60 seconds; one whose age is exactly 60000 ms stays in the window.
C9_KeepsSixtySecondsOld ==
    [][ ( /\ variant = "hyst"
          /\ lastEvent'.op = "tick" \/ lastEvent'.rose )
        => \A i \in 1..Len(recentBlinksRef) :
             (clock' - recentBlinksRef[i] <= 60000)
             => \E j \in 1..Len(recentBlinksRef') :
                  recentBlinksRef'[j] = recentBlinksRef[i] ]_vars

\* C10: when the N blinks registered so far all fall within the first 60
\* seconds of the session, currentBPM is N right after the Nth blink, however
\* many timer ticks came in between.
C10_WindowedRateIsN ==
    (variant = "hyst" /\ lastEvent.rose /\ Elapsed < 60000)
    => currentBPM = blinkCount

C10_Witness ==
    /\ variant = "hyst"
    /\ lastEvent.rose
    /\ recentBlinksRef = <<15000, 30000, 45000>>
    /\ nextBpmTick = 35000
    /\ blinkCount = 3
    /\ currentBPM = 3

\* The contour points of the last landmark set
EyePt(eye, k) == landmarks[eye[k]]

SqDist(eye, i, j) ==
    (EyePt(eye, i).x - EyePt(eye, j).x) * (EyePt(eye, i).x - EyePt(eye, j).x)
    + (EyePt(eye, i).y - EyePt(eye, j).y) * (EyePt(eye, i).y - EyePt(eye, j).y)

Root(n) == CHOOSE a \in 0..MaxDist : a * a = n

\* (dist(p1,p5) + dist(p2,p4)) / (2 * dist(p0,p3)) in thousandths, for p0 # p3
FormulaEAR(eye) ==
    ((Root(SqDist(eye, 2, 6)) + Root(SqDist(eye, 3, 5))) * 1000)
        \div (2 * Root(SqDist(eye, 1, 4)))

Degenerate(eye) == EyePt(eye, 1) = EyePt(eye, 4)

OtherPoints == {Pt(0, 0), Pt(7, 3)}

\* C18: calcEAR returns (dist(p1,p5) + dist(p2,p4)) / (2 * dist(p0,p3)) of the
\* six contour points, whatever the other landmarks are, and the input of the
\* latch is the arithmetic mean of the values of the two eyes.
C18_EARFormula ==
    landmarks # <<>> =>
        /\ \A eye \in {LEFT_EYE, RIGHT_EYE} :
             /\ ~Degenerate(eye) => calcEAR(landmarks, eye) = FormulaEAR(eye)
             /\ \A i \in LandmarkIdx \ {eye[k] : k \in 1..6} : \A q \in OtherPoints :
                  calcEAR([landmarks EXCEPT ![i] = q], eye) = calcEAR(landmarks, eye)
        /\ (~Degenerate(LEFT_EYE) /\ ~Degenerate(RIGHT_EYE)) =>
             /\ 2 * lastEvent.ear <= FormulaEAR(LEFT_EYE) + FormulaEAR(RIGHT_EYE)
             /\ FormulaEAR(LEFT_EYE) + FormulaEAR(RIGHT_EYE) < 2 * lastEvent.ear + 2

C18_Witness ==
    /\ landmarks # <<>>
    /\ calcEAR(landmarks, LEFT_EYE) = 250
    /\ calcEAR(landmarks, RIGHT_EYE) = 200
    /\ lastEvent.op = "frame" /\ lastEvent.face
    /\ lastEvent.ear = 225

\* C19: multiplying all coordinates by k > 0 leaves the EAR of an eye with
\* p0 # p3 unchanged, and so the average EAR that drives the latch.
C19_ScaleInvariant ==
    landmarks # <<>> =>
        \A k \in 1..MaxScale :
            /\ \A eye \in {LEFT_EYE, RIGHT_EYE} :
                 ~Degenerate(eye) =>
                     calcEAR(Scaled(landmarks, k), eye) = calcEAR(landmarks, eye)
            /\ (~Degenerate(LEFT_EYE) /\ ~Degenerate(RIGHT_EYE)) =>
                 avgEAR(calcEAR(Scaled(landmarks, k), LEFT_EYE),
                        calcEAR(Scaled(landmarks, k), RIGHT_EYE)) = lastEvent.ear

C19_Witness ==
    /\ landmarks # <<>>
    /\ ~Degenerate(LEFT_EYE) /\ ~Degenerate(RIGHT_EYE)
    /\ calcEAR(Scaled(landmarks, 3), LEFT_EYE) = 250
    /\ calcEAR(Scaled(landmarks, 2), RIGHT_EYE) = 220
    /\ lastEvent.ear = 235
    /\ lastEvent.rose

\* C20: for every landmark set that supplies the six points of both eyes, the
\* degenerate ones with dist(p0,p3) = 0 included, calcEAR yields a number and the
\* frame's average EAR is a number that the latch can compare.
C20_EARIsANumber ==
    landmarks # <<>> =>
        /\ calcEAR(landmarks, LEFT_EYE) # NaN
        /\ calcEAR(landmarks, RIGHT_EYE) # NaN
        /\ lastEvent.ear # NaN

LastBlink == blinkLog[Len(blinkLog)]

\* the last instant whose blinks a tick within the time horizon can still drop
LastPrunable == (CHOOSE m \in TimePoints : \A t \in TimePoints : t <= m) - 60000

Young(w) == SelectSeq(w, LAMBDA t : t > clock - 60000)

\* C11: a timer tick never raises currentBPM; a tick 60 seconds or more after
\* the last blink leaves currentBPM 0; once 0 it stays 0 until the next blink;
\* and with the timer firing, currentBPM reaches 0 unless a later blink comes.
C11_WindowDecays ==
    /\ [][lastEvent'.op = "tick" => currentBPM' <= currentBPM]_vars
    /\ []( ( /\ lastEvent.op = "tick"
             /\ blinkLog # <<>> => clock - LastBlink >= 60000 )
           => currentBPM = 0 )
    /\ [][ (currentBPM = 0 /\ ~(~blinkStateRef /\ blinkStateRef'))
           => currentBPM' = 0 ]_vars
    /\ (blinkLog # <<>> /\ LastBlink <= LastPrunable)
         ~> (currentBPM = 0 \/ LastBlink > LastPrunable)

C11_Witness ==
    /\ variant = "hyst"
    /\ lastEvent.op = "tick"
    /\ blinkLog = <<15000, 30000, 45000>>
    /\ clock = 105000
    /\ recentBlinksRef = <<>>
    /\ currentBPM = 0

\* C13: under every interleaving of frame callbacks and timer ticks no blink
\* is lost: after an update at time t every blink registered later than
\* t - 60000 is still in the window, and blinkCount is the number of blinks
\* ever pushed to the window.
C13_NoBlinkLost ==
    variant = "hyst" =>
        /\ blinkCount = Len(blinkLog)
        /\ WindowUpdated => Young(recentBlinksRef) = Young(blinkLog)

C13_Witness ==
    /\ variant = "hyst"
    /\ lastEvent.rose
    /\ clock = 75000
    /\ nextBpmTick = 35000
    /\ blinkLog = <<15000, 30000, 75000>>
    /\ recentBlinksRef = <<30000, 75000>>
    /\ blinkCount = 3

\* C14: the machine starts OPEN with all counters 0 and an empty window, and it
\* has no terminal state: while the camera runs a further frame can always be
\* processed, from CLOSED a frame leads back to OPEN and from OPEN a frame
\* leads to CLOSED (as long as the exploration bounds allow one more blink).
C14_StartsOpenNeverStuck ==
    /\ lastEvent.op = "init" =>
         /\ ~blinkStateRef /\ ~isBlinking
         /\ blinkCount = 0 /\ avgBlinkRate = [num |-> 0, den |-> 1]
         /\ currentBPM = 0 /\ recentBlinksRef = <<>>
    /\ camera = "on" => ENABLED OnResults
    /\ (camera = "on" /\ blinkStateRef) => ENABLED (OnResults /\ ~blinkStateRef')
    /\ (camera = "on" /\ ~blinkStateRef /\ blinkCount < MaxBlinks /\ run.len < MaxRun)
         => ENABLED (OnResults /\ blinkStateRef')

C14_Witness ==
    /\ camera = "on"
    /\ blinkStateRef
    /\ lastEvent.rose
    /\ blinkCount = 2
    /\ ENABLED (OnResults /\ ~blinkStateRef')

\* C15: processing the same frame twice in a row gives the same latch,
\* blinkCount and window as processing it once: the second of two consecutive
\* frames with the same average EAR changes none of them.
C15_SameFrameTwice ==
    [][ ( /\ lastEvent.op = "frame" /\ lastEvent.face
          /\ lastEvent'.op = "frame" /\ lastEvent'.face
          /\ lastEvent'.ear = lastEvent.ear )
        => UNCHANGED <<blinkStateRef, blinkCount, recentBlinksRef>> ]_vars

\* C17: after a frame callback that reaches the detection step eyesDetected
\* tells whether the result held a face; a callback that returns early for a
\* missing canvas or context changes neither eyesDetected nor the blink state.
C17_EyesDetected ==
    /\ [](lastEvent.op = "frame" => eyesDetected = lastEvent.face)
    /\ [][ lastEvent'.op = "early" =>
             UNCHANGED <<eyesDetected, blinkStateRef, isBlinking, blinkCount,
                         avgBlinkRate, recentBlinksRef, currentBPM>> ]_vars

C17_Witness ==
    /\ lastEvent.op = "early"
    /\ eyesDetected
    /\ blinkStateRef
    /\ blinkCount = 1

\* C12: once the cleanup of a run of the camera effect has run, no camera
\* created by that run is running, whether it was created before the cleanup
\* or by a retry of initCamera after it.
C12_NoCameraAfterCleanup ==
    \A g \in 1..Len(effects) : effects[g].cleaned => effects[g].cam # "running"

\* C16 as stated: no step at all, logout followed by login included, sets
\* blinkCount back or moves the session start timestamp.
C16_NeverReset ==
    [][blinkCount' >= blinkCount /\ startTimeRef' = startTimeRef]_vars

\* C16: the blink session state is reset by mounting the Dashboard anew and by
\* nothing else: a step that is not a mount never lowers blinkCount nor moves
\* startTimeRef, the script loading, timer, effect re-run and logout steps
\* leave count, start and latch alone, and a mount starts count, start, latch
\* and window afresh.
C16_ResetOnlyByMount ==
    [][ /\ mounts' = mounts
           => blinkCount' >= blinkCount /\ startTimeRef' = startTimeRef
        /\ lastEvent'.op \in {"mediapipe", "timer", "opencv", "logout"}
           => /\ blinkCount' = blinkCount
              /\ blinkStateRef' = blinkStateRef
              /\ recentBlinksRef' = recentBlinksRef
        /\ mounts' # mounts
           => /\ blinkCount' = 0
              /\ startTimeRef' = clock
              /\ ~blinkStateRef'
              /\ recentBlinksRef' = <<>> ]_vars

\* the Dashboard of a second mount, after blinks were counted and the camera
\* effect re-ran in the first one
C16_Witness ==
    /\ lastEvent.op = "login"
    /\ mounts = 2
    /\ Len(effects) = 3
    /\ effects[2].cleaned
    /\ blinkCount = 0
    /\ startTimeRef > 0

\* C29 as stated: a rendered blink status is exactly one of the four statuses,
\* and it is "Optimal" exactly when currentBPM lies in the healthy range the
\* dashboard prints, "Measuring..." for 0, "Too Low" below and "Too High"
\* above the range.
C29_OptimalIsHealthyRange ==
    blinkHealthStatus # ""
    => /\ blinkHealthStatus \in BlinkStatuses
       /\ blinkHealthStatus = "Optimal" <=> currentBPM \in HealthyRange
       /\ blinkHealthStatus = "Measuring..." <=> currentBPM = 0
       /\ blinkHealthStatus = "Too Low"
            <=> (currentBPM > 0 /\ \A h \in HealthyRange : currentBPM < h)
       /\ blinkHealthStatus = "Too High" <=> \A h \in HealthyRange : currentBPM > h

\* C28: every detectEyeRedness call returns with none of the Mats it
\* allocated left undeleted, and a call that failed returns redness 0.
C28_NoMatLeft ==
    \A c \in 1..Len(rednessCalls) :
        /\ rednessCalls[c].live = {}
        /\ rednessCalls[c].failed => rednessCalls[c].redness = 0

\* C27: in App, once opencvLoaded is true and the camera delivers frames with
\* a face that keep drawing the sample, the frame callback eventually calls
\* detectEyeRedness and sets leftEyeRedness and rightEyeRedness.
C27_RednessEventuallyMeasured ==
    (opencvLoaded /\ camera = "on") ~> (rednessCalls # <<>>)

\* C23: emotionHistory never holds more than 20 entries; it is the emotion
\* names of the most recent min(n, 20) of the n completed detections, in the
\* order of completion; a detection without a face or one that throws leaves
\* it as it was.
C23_HistoryIsLastTwenty ==
    /\ [](Len(emotionHistory) <= 20)
    /\ [](LET n == Len(emotionLog)
              k == IF n < 20 THEN n ELSE 20
          IN  /\ Len(emotionHistory) = k
              /\ \A i \in 1..k : emotionHistory[i] = emotionLog[n - k + i])
    /\ [][lastEvent'.op \in {"noface", "error"}
          => emotionHistory' = emotionHistory]_vars

\* more than 20 detections have completed and the one emotion that differs
\* from the others is still in the history
C23_Witness ==
    /\ Len(emotionLog) > 20
    /\ emotionLog[1] = "neutral"
    /\ \E i \in 1..Len(emotionHistory) : emotionHistory[i] = "happy"

\* C24: a detection completes only when both models are loaded; after a
\* failed load the emotion line reads "Error loading models", modelsLoaded
\* stays false and the interval unset for ever, no detection ever completes,
\* and the frame callback of a running camera stays enabled.
C24_NoDetectionWithoutModels ==
    /\ [](lastEvent.op \in {"emotion", "noface", "error"}
          => modelsLoaded /\ modelLoad = "done")
    /\ [](emotionInterval => modelsLoaded)
    /\ [](modelsLoaded => modelLoad = "done")
    /\ [](modelLoad = "failed"
          => /\ emotion = "Error loading models"
             /\ ~modelsLoaded
             /\ ~emotionInterval
             /\ emotionLog = <<>>
             /\ ~ENABLED DetectEmotion
             /\ camera = "on" => ENABLED LifeFrame)
    /\ [][modelLoad = "failed" => modelLoad' = "failed"]_vars

\* the load has failed and the detector has counted a blink since
C24_Witness ==
    /\ modelLoad = "failed"
    /\ lastEvent.op = "frame"
    /\ lastEvent.rose
    /\ blinkCount > 0

\* C25: at every moment at most one camera created by the Dashboard is
\* running, whatever the order in which the MediaPipe scripts load, the
\* initCamera timers fire and opencvLoaded turns true.
C25_AtMostOneCamera ==
    Cardinality({g \in 1..Len(effects) : effects[g].cam = "running"}) <= 1

\* C21: the flag is present exactly when the last action that changed it was
\* an accepted login or signup and not a logout; a step that mounts the
\* Dashboard ends on /login exactly when the flag is absent; logout always
\* removes the flag and navigates to /login.
C21_FlagFollowsLastAction ==
    /\ [](isAuthenticated <=> lastAuth \in {"login", "signup"})
    /\ [][mounts' # mounts => (route' = "/login" <=> ~isAuthenticated')]_vars
    /\ [][lastEvent'.op = "logout" => ~isAuthenticated' /\ route' = "/login"]_vars

\* after a signup and a logout the Dashboard was visited and sent the visitor
\* back to the login page
C21_Witness ==
    /\ lastEvent.op = "redirect"
    /\ lastAuth = "logout"
    /\ signupForm # NoForm
    /\ route = "/login"
    /\ ~isAuthenticated

\* C22: a signup submission sets the flag and navigates to /dashboard exactly
\* when name, email and password are non-empty and the passwords are equal;
\* with different passwords it raises the alert and leaves flag and route
\* alone; with equal passwords and an empty field it changes neither and
\* raises no alert.
C22_SignupOutcome ==
    [][lastEvent'.op = "signup"
       => LET f == signupForm'
              filled == f.name # "" /\ f.email # "" /\ f.password # ""
              same == f.password = f.confirmPassword
          IN  /\ (filled /\ same)
                 <=> (isAuthenticated' /\ route' = "/dashboard"
                      /\ lastAuth' = "signup")
              /\ ~same => /\ alert' = "Passwords do not match!"
                          /\ isAuthenticated' = isAuthenticated
                          /\ route' = route
              /\ (same /\ ~filled) => /\ alert' = ""
                                      /\ isAuthenticated' = isAuthenticated
                                      /\ route' = route
                                      /\ lastAuth' = lastAuth
              /\ (filled /\ same) => alert' = "" ]_vars

\* a submission with all fields filled and two different passwords
C22_Witness ==
    /\ lastEvent.op = "signup"
    /\ signupForm.name # ""
    /\ signupForm.email # ""
    /\ signupForm.password # ""
    /\ signupForm.password # signupForm.confirmPassword
    /\ alert = "Passwords do not match!"
    /\ route = "/signup"

\* C26: the camera effect of a Dashboard that was mounted without the flag
\* never starts a camera, neither at the mount nor by a later timer.
C26_NoCameraForGuest ==
    \A g \in 1..Len(effects) : effects[g].guest => effects[g].cam = "none"

====
